---- MODULE Spec2Model ----
(***************************************************************************)
(* A model of the `goto` and `new` commands of StGit (src/cmd/goto.rs,     *)
(* src/cmd/new.rs): patch name resolution, the pre-flight checks, and the  *)
(* stack transaction the two commands drive.                               *)
(*                                                                         *)
(* Strings are tuples of one-character strings.  Commit ids are tuples of  *)
(* hexadecimal digits.  A tree is the content of the one tracked file.     *)
(***************************************************************************)
EXTENDS Integers, Sequences, FiniteSets, TLC

(***************************************************************************)
(* Bounds of the model.                                                    *)
(***************************************************************************)
\* the largest number of patches a stack holds
MaxPatches == 3
\* file contents range over 0..MaxContent
MaxContent == 2
\* the largest number of abnormal conditions (a merge in progress, a dirty
\* index, a dirty working tree, a foreign commit on the branch) the user
\* brings about at the same time
MaxFaults == 1

(***************************************************************************)
(* Program constants.                                                      *)
(***************************************************************************)
\* goto.rs:71  patchname.len() >= 4
MinOidPrefixLen == 4
\* goto.rs:71  git2::Oid::from_str accepts at most 40 hexadecimal digits
OidHexSize == 40

(***************************************************************************)
(* Strings.                                                                *)
(***************************************************************************)
Min(x, y) == IF x <= y THEN x ELSE y
Max(x, y) == IF x >= y THEN x ELSE y

LowerHexDigits == {"0", "1", "2", "3", "4", "5", "6", "7", "8", "9",
                   "a", "b", "c", "d", "e", "f"}
UpperHexDigits == {"A", "B", "C", "D", "E", "F"}

\* u8::to_ascii_lowercase on the characters the model uses
AsciiLowerChar(c) ==
    CASE c = "A" -> "a" [] c = "B" -> "b" [] c = "C" -> "c"
      [] c = "D" -> "d" [] c = "E" -> "e" [] c = "F" -> "f"
      [] OTHER -> c

ToAsciiLowercase(s) == [i \in 1..Len(s) |-> AsciiLowerChar(s[i])]

StartsWith(s, prefix) ==
    /\ Len(prefix) <= Len(s)
    /\ \A i \in 1..Len(prefix) : s[i] = prefix[i]

\* git2::Oid::from_str(s).is_ok(): 1 to 40 hexadecimal digits of either case
OidFromStrOk(s) ==
    /\ Len(s) >= 1
    /\ Len(s) <= OidHexSize
    /\ \A i \in 1..Len(s) : s[i] \in LowerHexDigits \cup UpperHexDigits

(***************************************************************************)
(* strsim::jaro_winkler.  The scan of `a` against `b` keeps the consumed   *)
(* positions of b, the number of matches, the number of transpositions     *)
(* and the index of the last match; indices here are 1-based.              *)
(***************************************************************************)
\* the first unconsumed j in lo..hi with b[j] = c, or 0
FirstMatch(c, b, lo, hi, consumed) ==
    LET cand == {j \in lo..hi : b[j] = c /\ j \notin consumed}
    IN IF cand = {} THEN 0 ELSE CHOOSE j \in cand : \A k \in cand : j <= k

RECURSIVE JaroScan(_, _, _, _, _, _, _, _)
JaroScan(a, b, i, range, consumed, matches, transpositions, lastMatch) ==
    IF i > Len(a) THEN <<matches, transpositions>>
    ELSE
        LET i0 == i - 1
            minBound == IF i0 > range THEN Max(0, i0 - range) ELSE 0
            maxBound == Min(Len(b) - 1, i0 + range)
            j == IF minBound > maxBound THEN 0
                 ELSE FirstMatch(a[i], b, minBound + 1, maxBound + 1, consumed)
        IN IF j = 0
           THEN JaroScan(a, b, i + 1, range, consumed, matches,
                         transpositions, lastMatch)
           ELSE JaroScan(a, b, i + 1, range, consumed \cup {j}, matches + 1,
                         IF j < lastMatch THEN transpositions + 1
                                          ELSE transpositions,
                         j)

\* the Jaro similarity as a fraction <<numerator, denominator>>
Jaro(a, b) ==
    IF Len(a) = 0 /\ Len(b) = 0 THEN <<1, 1>>
    ELSE IF Len(a) = 0 \/ Len(b) = 0 THEN <<0, 1>>
    ELSE IF Len(a) = 1 /\ Len(b) = 1
         THEN (IF a = b THEN <<1, 1>> ELSE <<0, 1>>)
    ELSE
        LET range == (Max(Len(a), Len(b)) \div 2) - 1
            mt == JaroScan(a, b, 1, range, {}, 0, 0, 0)
            m == mt[1]
            t == mt[2]
        IN IF m = 0 THEN <<0, 1>>
           ELSE <<m * m * Len(b) + m * m * Len(a) + (m - t) * Len(a) * Len(b),
                  3 * Len(a) * Len(b) * m>>

RECURSIVE CommonPrefixLen(_, _, _)
CommonPrefixLen(a, b, n) ==
    IF n < Len(a) /\ n < Len(b) /\ a[n + 1] = b[n + 1]
    THEN CommonPrefixLen(a, b, n + 1)
    ELSE n

\* jaro + 0.1 * prefix * (1 - jaro), capped at 1, as a fraction
JaroWinkler(a, b) ==
    LET jd == Jaro(a, b)
        p == CommonPrefixLen(a, b, 0)
        num == 10 * jd[1] + p * (jd[2] - jd[1])
        den == 10 * jd[2]
    IN IF num <= den THEN <<num, den>> ELSE <<1, 1>>

\* jaro_winkler(pn, patchname) > 0.75
SimilarityAboveThreshold(pn, patchname) ==
    LET jw == JaroWinkler(pn, patchname)
    IN 4 * jw[1] > 3 * jw[2]

(***************************************************************************)
(* The universe of the model: patch names, command-line inputs, commit     *)
(* ids and trees.                                                          *)
(***************************************************************************)
P1 == <<"p", "1">>
P12 == <<"p", "1", "2">>
ABCD == <<"a", "b", "c", "d">>
\* the names `new` is given (all are valid PatchNames)
PatchNames == {P1, P12, ABCD}
\* the <patch> argument of goto: the names, near misses, commit id prefixes
Inputs == PatchNames \cup
          { <<"p">>, <<"a", "b">>,
            <<"b", "e", "e", "f">>, <<"B", "E", "E", "F">>,
            <<"b", "e", "e", "g">>, <<"a", "b", "c", "d", "1">> }
NoName == <<>>

\* A commit id is a hash of the commit's content: an injective encoding of
\* the patch the commit is made for, its tree and its parent's tree.
OidStem(pn) ==
    CASE pn = P1 -> <<"a", "b", "c", "d", "1">>
      [] pn = P12 -> <<"a", "b", "c", "d", "2">>
      [] pn = ABCD -> <<"b", "e", "e", "f", "3">>
Digits == <<"0", "1", "2", "3", "4", "5", "6", "7", "8", "9">>
CommitId(pn, tree, ptree) ==
    OidStem(pn) \o <<Digits[tree + 1], Digits[ptree + 1]>>
\* the base commit of the branch, and a commit made outside the tool
BaseOid == <<"0", "0", "0", "0", "0">>
ExternalOid == <<"e", "e", "e", "e", "e">>

\* a tree is the content of the one tracked file
Trees == 0..MaxContent
BaseTree == 0
\* the result of a three-way merge that conflicts
Conflict == MaxContent + 1

Last(s) == s[Len(s)]
Range(s) == {s[i] : i \in 1..Len(s)}
\* slice.iter().position(|pn| pn == x): the first index of x in s, or 0
Position(s, x) ==
    IF x \in Range(s) THEN CHOOSE i \in 1..Len(s) :
                               s[i] = x /\ \A k \in 1..(i - 1) : s[k] # x
    ELSE 0

(***************************************************************************)
(* State.  The repository and the persisted stack metadata:                *)
(*   applied, unapplied  sequences of patch names                          *)
(*   hidden              set of patch names                                *)
(*   patches             patch name -> [commit, tree, ptree] (descriptor:  *)
(*                       commit id, its tree, the tree of its parent)      *)
(*   head                commit id of the branch head                      *)
(*   repoState           "Clean" or "Merge" (a merge/rebase in progress)   *)
(*   indexDirty, worktreeDirty                                             *)
(* The running (or last) command's process:                                *)
(*   pc      "idle", "parsed", "open", "transacted", "executing", "done"   *)
(*   cmd     the command line                                              *)
(*   stack   the Stack loaded by Stack::from_branch                        *)
(*   target  the resolved patch name                                       *)
(*   commit  the commit made for a new patch, with its parent's id         *)
(*   tx      the stack transaction                                         *)
(*   result  how the command ended, and what it printed                    *)
(*   consulted  the candidate lists the Merge Detector was asked about     *)
(* The command line of new as clap parses it:                              *)
(*   matches the arguments present on it                                   *)
(***************************************************************************)
VARIABLES applied, unapplied, hidden, patches, head,
          repoState, indexDirty, worktreeDirty,
          pc, cmd, stack, target, commit, tx, result, consulted, matches

repo == <<applied, unapplied, hidden, patches, head>>
env == <<repoState, indexDirty, worktreeDirty>>
proc == <<pc, cmd, stack, target, commit, tx, result>>
vars == <<applied, unapplied, hidden, patches, head,
          repoState, indexDirty, worktreeDirty,
          pc, cmd, stack, target, commit, tx, result, consulted,
          matches>>

\* the persisted stack metadata
Metadata == [applied |-> applied, unapplied |-> unapplied,
             hidden |-> hidden, patches |-> patches]

\* Stack::from_branch: the snapshot of the persisted state and the head
FromBranch == [applied |-> applied, unapplied |-> unapplied,
               hidden |-> hidden, patches |-> patches, head |-> head]

\* the commit the head is expected at: top of applied, or the branch base
TopCommit(ap, pt) == IF Len(ap) = 0 THEN BaseOid ELSE pt[Last(ap)].commit
TopTree(ap, pt) == IF Len(ap) = 0 THEN BaseTree ELSE pt[Last(ap)].tree

\* stack.all_patches(): applied, then unapplied, then hidden
AllPatches(st) == Range(st.applied) \cup Range(st.unapplied) \cup st.hidden

(***************************************************************************)
(* goto.rs 42-48: the pre-flight checks, in the order of the code.         *)
(***************************************************************************)
CheckRepositoryState == repoState = "Clean"
\* the head compared with the commit of the first applied patch
CheckHeadTopMismatch_Bottom(st) ==
    st.head = IF Len(st.applied) = 0 THEN BaseOid
              ELSE st.patches[st.applied[1]].commit

CheckHeadTopMismatch(st) == st.head = TopCommit(st.applied, st.patches)
CheckIndexClean == ~indexDirty
CheckWorktreeClean == ~worktreeDirty

\* the head/top check left out
GotoPreflight_NoHeadCheck(st, opt_keep) ==
    IF ~CheckRepositoryState THEN "RepositoryStateConflict"
    ELSE IF ~opt_keep /\ ~CheckIndexClean THEN "DirtyIndex"
    ELSE IF ~opt_keep /\ ~CheckWorktreeClean THEN "DirtyWorktree"
    ELSE "ok"

\* the cleanliness checks run whatever opt_keep is
GotoPreflight_KeepIgnored(st, opt_keep) ==
    IF ~CheckRepositoryState THEN "RepositoryStateConflict"
    ELSE IF ~CheckHeadTopMismatch(st) THEN "HeadMismatch"
    ELSE IF ~CheckIndexClean THEN "DirtyIndex"
    ELSE IF ~CheckWorktreeClean THEN "DirtyWorktree"
    ELSE "ok"

GotoPreflight(st, opt_keep) ==
    IF ~CheckRepositoryState THEN "RepositoryStateConflict"
    ELSE IF ~CheckHeadTopMismatch(st) THEN "HeadMismatch"
    ELSE IF ~opt_keep /\ ~CheckIndexClean THEN "DirtyIndex"
    ELSE IF ~opt_keep /\ ~CheckWorktreeClean THEN "DirtyWorktree"
    ELSE "ok"

(***************************************************************************)
(* goto.rs 50-110: patch name resolution.                                  *)
(***************************************************************************)
Resolved(pn) == [ok |-> TRUE, name |-> pn, msg |-> "", printed |-> {}]
Failed(msg, printed) ==
    [ok |-> FALSE, name |-> NoName, msg |-> msg, printed |-> printed]

\* goto.rs 57-60
SimilarNames(st, patchname) ==
    {pn \in AllPatches(st) : SimilarityAboveThreshold(pn, patchname)}

\* the length test left out
IsOidPrefix_NoMinLength(patchname) == OidFromStrOk(patchname)

\* goto.rs 71
IsOidPrefix(patchname) ==
    Len(patchname) >= MinOidPrefixLen /\ OidFromStrOk(patchname)

\* the prefix compared as typed, without to_ascii_lowercase
OidMatches_CaseSensitive(st, patchname) ==
    {pn \in DOMAIN st.patches : StartsWith(st.patches[pn].commit, patchname)}

\* goto.rs 72-85
OidMatches(st, patchname) ==
    LET oid_prefix == ToAsciiLowercase(patchname)
    IN {pn \in DOMAIN st.patches :
            StartsWith(st.patches[pn].commit, oid_prefix)}

\* goto.rs 87-103
ResolveOidPrefix(st, patchname) ==
    LET oid_matches == OidMatches(st, patchname)
    IN IF oid_matches = {} THEN Failed("no patch associated", {})
       ELSE IF Cardinality(oid_matches) = 1
            THEN Resolved(CHOOSE pn \in oid_matches : TRUE)
       ELSE Failed("ambiguous commit id", oid_matches)

\* the hidden test left out
ResolveExact_IgnoresHidden(st, patchname) == Resolved(patchname)

\* goto.rs 50-56
ResolveExact(st, patchname) ==
    IF patchname \in st.hidden
    THEN Failed("Cannot goto a hidden patch", {})
    ELSE Resolved(patchname)

\* the commit id prefix tried before the exact name
Resolve_PrefixFirst(st, patchname) ==
    IF IsOidPrefix(patchname) /\ OidMatches(st, patchname) # {}
    THEN ResolveOidPrefix(st, patchname)
    ELSE IF patchname \in DOMAIN st.patches THEN ResolveExact(st, patchname)
    ELSE IF SimilarNames(st, patchname) # {}
         THEN Failed("ambiguous patch name", SimilarNames(st, patchname))
    ELSE Failed("does not exist", {})

\* a single similar name taken as the patch meant
Resolve_PicksSingleCandidate(st, patchname) ==
    IF patchname \in DOMAIN st.patches THEN ResolveExact(st, patchname)
    ELSE IF Cardinality(SimilarNames(st, patchname)) = 1
         THEN Resolved(CHOOSE pn \in SimilarNames(st, patchname) : TRUE)
    ELSE IF SimilarNames(st, patchname) # {}
         THEN Failed("ambiguous patch name", SimilarNames(st, patchname))
    ELSE IF IsOidPrefix(patchname) THEN ResolveOidPrefix(st, patchname)
    ELSE Failed("does not exist", {})

\* goto.rs 50-110
Resolve(st, patchname) ==
    IF patchname \in DOMAIN st.patches THEN ResolveExact(st, patchname)
    ELSE IF SimilarNames(st, patchname) # {}
         THEN Failed("ambiguous patch name", SimilarNames(st, patchname))
    ELSE IF IsOidPrefix(patchname) THEN ResolveOidPrefix(st, patchname)
    ELSE Failed("does not exist", {})

(***************************************************************************)
(* The stack transaction (StackTransaction; its code is outside the two    *)
(* command files, so it follows sections 4.2 and 4.3 of the               *)
(* specification).  While Open it records intents; execute applies them    *)
(* in order to its own copy of the stack and persists the copy on commit.  *)
(***************************************************************************)
NoTx == [state |-> "None", mode |-> "Disallow", discard_changes |-> FALSE,
         use_index_and_worktree |-> FALSE,
         applied |-> <<>>, unapplied |-> <<>>, patches |-> <<>>,
         intents |-> <<>>, done |-> 0, conflicts |-> FALSE]

\* StackTransaction::make_context
MakeContext(st, mode, discard_changes, use_index_and_worktree) ==
    [state |-> "Open", mode |-> mode, discard_changes |-> discard_changes,
     use_index_and_worktree |-> use_index_and_worktree,
     applied |-> st.applied, unapplied |-> st.unapplied,
     patches |-> st.patches,
     intents |-> <<>>, done |-> 0, conflicts |-> FALSE]

NoDesc == [commit |-> NoName, tree |-> BaseTree, ptree |-> BaseTree]

PopIntent(pn) == [op |-> "pop", pn |-> pn, merged |-> FALSE, desc |-> NoDesc]
PushIntent(pn, already_merged) ==
    [op |-> "push", pn |-> pn, merged |-> already_merged, desc |-> NoDesc]
\* new_applied(patchname, commit_id)
NewIntent(pn, desc) == [op |-> "new", pn |-> pn, merged |-> FALSE, desc |-> desc]

\* pop_patches(predicate): the suffix of applied from the first element that
\* satisfies the predicate (here: membership in to_pop), popped topmost first
PopPatches(t, to_pop) ==
    LET hits == {i \in 1..Len(t.applied) : t.applied[i] \in to_pop}
        first == IF hits = {} THEN Len(t.applied) + 1
                 ELSE CHOOSE i \in hits : \A k \in hits : i <= k
        n == Len(t.applied) - first + 1
    IN [k \in 1..n |-> PopIntent(t.applied[Len(t.applied) - k + 1])]

\* repository.three_way_merge on the one tracked file
ThreeWayMerge(base, ours, theirs) ==
    IF base = theirs THEN ours
    ELSE IF base = ours THEN theirs
    ELSE IF ours = theirs THEN ours
    ELSE Conflict

\* check_merged(candidates): the candidates whose change, applied to the
\* current head, gives the head's own tree
CheckMerged(t, candidates) ==
    LET headTree == TopTree(t.applied, t.patches)
    IN {pn \in Range(candidates) :
            ThreeWayMerge(t.patches[pn].ptree, headTree, t.patches[pn].tree)
                = headTree}

\* repository.create_commit for patch pn: the descriptor of the new commit
CreateCommit(pn, tree, ptree) ==
    [commit |-> CommitId(pn, tree, ptree), tree |-> tree, ptree |-> ptree]

(***************************************************************************)
(* goto.rs 112-160: the transaction goto opens and the intents its closure *)
(* records.                                                                *)
(***************************************************************************)
\* the conflict mode taken to be Allow
GotoContext_AllowsConflicts(st) == MakeContext(st, "Allow", FALSE, TRUE)

\* goto.rs 112-120
GotoContext(st) == MakeContext(st, "Disallow", FALSE, TRUE)

\* the slice taken one too far up: applied[pos + 2..]
GotoPops_LeavesOneAbove(t, pos) ==
    LET to_pop == Range(SubSeq(t.applied, pos + 2, Len(t.applied)))
    IN PopPatches(t, to_pop)

\* the slice taken from the target on: applied[pos..]
GotoPops_IncludesTarget(t, pos) ==
    LET to_pop == Range(SubSeq(t.applied, pos, Len(t.applied)))
    IN PopPatches(t, to_pop)

\* goto.rs 124-125
GotoPops(t, pos) ==
    LET to_pop == Range(SubSeq(t.applied, pos + 1, Len(t.applied)))
    IN PopPatches(t, to_pop)

\* the slice taken without the target: unapplied[0..pos]
GotoToApply_ExcludesTarget(t, pos) == SubSeq(t.unapplied, 1, pos - 1)

\* the target alone pushed
GotoToApply_OnlyTarget(t, pos) == <<t.unapplied[pos]>>

\* goto.rs 134
GotoToApply(t, pos) == SubSeq(t.unapplied, 1, pos)

\* with the merged flag every patch pushed as merged
GotoPushes_AllMerged(t, pos, opt_merged) ==
    LET to_apply == GotoToApply(t, pos)
    IN [i \in 1..Len(to_apply) |-> PushIntent(to_apply[i], opt_merged)]

\* goto.rs 136-140: the calls of check_merged
GotoConsults(t, pos, opt_merged) ==
    IF opt_merged THEN <<GotoToApply(t, pos)>> ELSE <<>>

\* goto.rs 136-156
GotoPushes(t, pos, opt_merged) ==
    LET to_apply == GotoToApply(t, pos)
        merged == IF opt_merged THEN CheckMerged(t, to_apply) ELSE {}
    IN [i \in 1..Len(to_apply) |->
            PushIntent(to_apply[i], to_apply[i] \in merged)]

(***************************************************************************)
(* The process of a command.                                               *)
(***************************************************************************)
NoCmd == [name |-> "none", input |-> NoName, keep |-> FALSE,
          merged |-> FALSE, refresh |-> FALSE, save_template |-> FALSE]
NoStack == [applied |-> <<>>, unapplied |-> <<>>, hidden |-> {},
            patches |-> <<>>, head |-> BaseOid]
\* no commit made
NoCommit == [commit |-> NoName, tree |-> BaseTree, ptree |-> BaseTree,
             parent |-> NoName]
NoResult == [status |-> "none", msg |-> "", printed |-> {}]
Running == [status |-> "running", msg |-> "", printed |-> {}]
Success == [status |-> "ok", msg |-> "", printed |-> {}]
Error(msg, printed) == [status |-> "err", msg |-> msg, printed |-> printed]

Init ==
    /\ applied = <<>>
    /\ unapplied = <<>>
    /\ \/ hidden = {} /\ patches = <<>>
       \/ /\ hidden = {P12}
          /\ patches = [pn \in {P12} |->
                            CreateCommit(P12, MaxContent, BaseTree)]
    /\ head = BaseOid
    /\ repoState = "Clean"
    /\ indexDirty = FALSE
    /\ worktreeDirty = FALSE
    /\ pc = "idle"
    /\ cmd = NoCmd
    /\ stack = NoStack
    /\ target = NoName
    /\ commit = NoCommit
    /\ tx = NoTx
    /\ result = NoResult
    /\ consulted = <<>>
    /\ matches = {}

(***************************************************************************)
(* goto.rs 34-120: load the stack, run the pre-flight checks, resolve the  *)
(* patch name and make the transaction context.                            *)
(***************************************************************************)
GotoStart(input, opt_keep, opt_merged) ==
    /\ pc = "idle"
    /\ LET st == FromBranch
           pre == GotoPreflight(st, opt_keep)
           r == Resolve(st, input)
       IN /\ cmd' = [NoCmd EXCEPT !.name = "goto", !.input = input,
                                  !.keep = opt_keep, !.merged = opt_merged]
          /\ stack' = st
          /\ IF pre # "ok"
             THEN /\ result' = Error(pre, {})
                  /\ target' = NoName /\ tx' = NoTx /\ pc' = "done"
             ELSE IF ~r.ok
             THEN /\ result' = Error(r.msg, r.printed)
                  /\ target' = NoName /\ tx' = NoTx /\ pc' = "done"
             ELSE /\ result' = Running
                  /\ target' = r.name
                  /\ tx' = GotoContext(st)
                  /\ pc' = "open"
    /\ commit' = NoCommit
    /\ UNCHANGED <<repo, env>>
    /\ UNCHANGED <<consulted, matches>>

(***************************************************************************)
(* goto.rs 122-160: the closure given to transact.                         *)
(***************************************************************************)
\* the pops done on the persisted stack as they are recorded
GotoTransact_WritesStack ==
    /\ pc = "open"
    /\ cmd.name = "goto"
    /\ LET pos == Position(tx.applied, target)
       IN /\ pos # 0
          /\ tx' = [tx EXCEPT !.intents = GotoPops(tx, pos)]
          /\ applied' = SubSeq(applied, 1, pos)
          /\ unapplied' = SubSeq(applied, pos + 1, Len(applied)) \o unapplied
    /\ pc' = "transacted"
    /\ UNCHANGED <<hidden, patches, head, env, cmd, stack, target, commit,
                   result, consulted, matches>>

GotoTransact ==
    /\ pc = "open"
    /\ cmd.name = "goto"
    /\ LET pos == Position(tx.applied, target)
           upos == Position(tx.unapplied, target)
       IN IF pos # 0
          THEN /\ tx' = [tx EXCEPT !.intents = GotoPops(tx, pos)]
               /\ pc' = "transacted"
               /\ UNCHANGED <<result, consulted>>
          ELSE IF upos # 0
          THEN /\ tx' = [tx EXCEPT !.intents =
                                       GotoPushes(tx, upos, cmd.merged)]
               /\ consulted' = GotoConsults(tx, upos, cmd.merged)
               /\ pc' = "transacted"
               /\ UNCHANGED result
          \* goto.rs 132: expect() panics
          ELSE /\ result' = Error("panic", {})
               /\ pc' = "done"
               /\ UNCHANGED <<tx, consulted>>
    /\ UNCHANGED <<repo, env, cmd, stack, target, commit, matches>>

(***************************************************************************)
(* execute(label): goto.rs 162, new.rs 182.                                *)
(***************************************************************************)
RequiresClean(t) == t.use_index_and_worktree /\ ~t.discard_changes

\* execute has begun and finds local changes that the checkout would
\* overwrite: abort before any mutation
TxExecuteDirty ==
    /\ pc = "executing"
    /\ tx.done = 0
    /\ RequiresClean(tx) /\ (indexDirty \/ worktreeDirty)
    /\ tx' = [tx EXCEPT !.state = "Aborted"]
    /\ result' = Error("DirtyState", {})
    /\ pc' = "done"
    /\ UNCHANGED <<repo, env, cmd, stack, target, commit>>
    /\ UNCHANGED <<consulted, matches>>

TxExecute ==
    /\ pc = "transacted"
    /\ tx' = [tx EXCEPT !.state = "Executing"]
    /\ pc' = "executing"
    /\ UNCHANGED <<repo, env, cmd, stack, target, commit, result>>
    /\ UNCHANGED <<consulted, matches>>

SetDesc(pt, pn, desc) ==
    [q \in DOMAIN pt \cup {pn} |-> IF q = pn THEN desc ELSE pt[q]]

\* the pop of the top patch
ApplyPop(t, pn) ==
    [t EXCEPT !.applied = SubSeq(t.applied, 1, Len(t.applied) - 1),
              !.unapplied = <<pn>> \o t.unapplied,
              !.done = t.done + 1]

\* the push of patch pn with a new commit of the given tree
ApplyPush(t, pn, tree, conflicted) ==
    [t EXCEPT !.applied = Append(t.applied, pn),
              !.unapplied = SelectSeq(t.unapplied, LAMBDA q : q # pn),
              !.patches = SetDesc(t.patches, pn,
                              CreateCommit(pn, tree,
                                           TopTree(t.applied, t.patches))),
              !.done = t.done + 1,
              !.conflicts = t.conflicts \/ conflicted]

\* the tree a push of pn produces: the head's tree for a merged patch,
\* otherwise the three-way merge of the patch onto the head
PushTree(t, it) ==
    IF it.merged THEN TopTree(t.applied, t.patches)
    ELSE ThreeWayMerge(t.patches[it.pn].ptree, TopTree(t.applied, t.patches),
                       t.patches[it.pn].tree)

TxStepPop ==
    /\ pc = "executing"
    /\ tx.done < Len(tx.intents)
    /\ LET it == tx.intents[tx.done + 1]
       IN /\ it.op = "pop"
          /\ tx' = ApplyPop(tx, it.pn)
    /\ UNCHANGED <<repo, env, pc, cmd, stack, target, commit, result>>
    /\ UNCHANGED <<consulted, matches>>

TxStepPush ==
    /\ pc = "executing"
    /\ tx.done < Len(tx.intents)
    /\ LET it == tx.intents[tx.done + 1]
           tree == PushTree(tx, it)
       IN /\ it.op = "push"
          /\ tree # Conflict \/ tx.mode = "Allow"
          /\ tx' = ApplyPush(tx, it.pn,
                             IF tree = Conflict
                             THEN TopTree(tx.applied, tx.patches)
                             ELSE tree,
                             tree = Conflict)
    /\ UNCHANGED <<repo, env, pc, cmd, stack, target, commit, result>>
    /\ UNCHANGED <<consulted, matches>>

\* a conflicting push under ConflictMode::Disallow aborts the transaction;
\* once patches were applied the working tree may be left modified
TxStepConflict ==
    /\ pc = "executing"
    /\ tx.done < Len(tx.intents)
    /\ LET it == tx.intents[tx.done + 1]
       IN /\ it.op = "push"
          /\ PushTree(tx, it) = Conflict
          /\ tx.mode = "Disallow"
    /\ tx' = [tx EXCEPT !.state = "Aborted"]
    /\ result' = Error("MergeConflict", {})
    /\ pc' = "done"
    /\ worktreeDirty' \in (IF tx.done > 0 THEN {worktreeDirty, TRUE}
                                          ELSE {worktreeDirty})
    /\ UNCHANGED <<repo, repoState, indexDirty, cmd, stack, target, commit>>
    /\ UNCHANGED <<consulted, matches>>

TxStepNew ==
    /\ pc = "executing"
    /\ tx.done < Len(tx.intents)
    /\ LET it == tx.intents[tx.done + 1]
       IN /\ it.op = "new"
          /\ tx' = [tx EXCEPT !.applied = Append(tx.applied, it.pn),
                              !.patches = SetDesc(tx.patches, it.pn, it.desc),
                              !.done = tx.done + 1]
    /\ UNCHANGED <<repo, env, pc, cmd, stack, target, commit, result>>
    /\ UNCHANGED <<consulted, matches>>

\* all intents applied: the one write of the persisted state and the head
TxCommit ==
    /\ pc = "executing"
    /\ tx.done = Len(tx.intents)
    /\ applied' = tx.applied
    /\ unapplied' = tx.unapplied
    /\ patches' = tx.patches
    /\ head' = TopCommit(tx.applied, tx.patches)
    /\ tx' = [tx EXCEPT !.state = "Committed"]
    /\ result' = Success
    /\ pc' = "done"
    /\ IF cmd.name = "new" /\ cmd.refresh
       THEN indexDirty' = FALSE /\ worktreeDirty' = FALSE
       ELSE IF tx.conflicts
       THEN indexDirty' = TRUE /\ worktreeDirty' = TRUE
       ELSE UNCHANGED <<indexDirty, worktreeDirty>>
    /\ UNCHANGED <<hidden, repoState, cmd, stack, target, commit>>
    /\ UNCHANGED <<consulted, matches>>

\* repository.write_ref fails: nothing is persisted
TxWriteFailure ==
    /\ pc = "executing"
    /\ tx.done = Len(tx.intents)
    /\ tx' = [tx EXCEPT !.state = "Aborted"]
    /\ result' = Error("RepositoryWriteFailure", {})
    /\ pc' = "done"
    /\ UNCHANGED <<repo, env, cmd, stack, target, commit>>
    /\ UNCHANGED <<consulted, matches>>

(***************************************************************************)
(* new.rs 123-182.                                                         *)
(***************************************************************************)
\* the repository state check left out
NewPreflight_NoStateCheck(st) ==
    IF ~CheckHeadTopMismatch(st) THEN "HeadMismatch"
    ELSE "ok"

\* new.rs 128-130
NewPreflight(st) ==
    IF ~CheckRepositoryState THEN "RepositoryStateConflict"
    ELSE IF ~CheckHeadTopMismatch(st) THEN "HeadMismatch"
    ELSE "ok"

\* only the applied patches looked at
HasPatch_AppliedOnly(st, pn) == pn \in Range(st.applied)

\* new.rs 134: stack.has_patch
HasPatch(st, pn) == pn \in DOMAIN st.patches

\* the tree taken from the index and the work tree without --refresh too
NewTrees_AlwaysWorktree(st, is_refreshing) ==
    LET headTree == TopTree(st.applied, st.patches)
    IN IF indexDirty \/ worktreeDirty
       THEN Trees \ {headTree}
       ELSE {headTree}

\* new.rs 147-151: the tree of the new patch
NewTrees(st, is_refreshing) ==
    LET headTree == TopTree(st.applied, st.patches)
    IN IF is_refreshing /\ (indexDirty \/ worktreeDirty)
       THEN Trees \ {headTree}
       ELSE {headTree}

\* new.rs 153
NewParentId(st) == st.head

\* new.rs 155-170: the commit EditBuilder::edit makes for patch pn, with the
\* tree and the parent it was given
NewCommit(st, pn, tree) ==
    [commit |-> CommitId(pn, tree, TopTree(st.applied, st.patches)),
     tree |-> tree, ptree |-> TopTree(st.applied, st.patches),
     parent |-> NewParentId(st)]

\* the descriptor of a patch whose commit is c
DescOf(c) == [commit |-> c.commit, tree |-> c.tree, ptree |-> c.ptree]

\* new.rs 155-170: the name of the committed patch: the one given, or one
\* generated from the message that no patch has
NewNames(st, name) ==
    IF name # NoName THEN {name} ELSE PatchNames \ DOMAIN st.patches

\* name: the patchname argument or NoName; edit: what EditBuilder::edit
\* returns ("Committed", "TemplateSaved" or "Failed")
NewStart(name, opt_refresh, opt_save_template, edit) ==
    /\ pc = "idle"
    /\ ~(opt_refresh /\ opt_save_template)
    /\ edit = "TemplateSaved" => ~opt_refresh
    /\ LET st == FromBranch
           pre == NewPreflight(st)
       IN /\ cmd' = [NoCmd EXCEPT !.name = "new", !.input = name,
                                  !.refresh = opt_refresh,
                                  !.save_template = opt_save_template]
          /\ stack' = st
          /\ IF pre # "ok"
             THEN /\ result' = Error(pre, {})
                  /\ target' = NoName /\ commit' = NoCommit
                  /\ tx' = NoTx /\ pc' = "done"
             ELSE IF name # NoName /\ HasPatch(st, name)
             THEN /\ result' = Error("already exists", {})
                  /\ target' = NoName /\ commit' = NoCommit
                  /\ tx' = NoTx /\ pc' = "done"
             ELSE IF edit = "Failed"
             THEN /\ result' = Error("EditFailed", {})
                  /\ target' = NoName /\ commit' = NoCommit
                  /\ tx' = NoTx /\ pc' = "done"
             ELSE IF edit = "TemplateSaved"
             THEN /\ result' = Success
                  /\ target' = NoName /\ commit' = NoCommit
                  /\ tx' = NoTx /\ pc' = "done"
             ELSE /\ Cardinality(DOMAIN st.patches) < MaxPatches
                  /\ \E pn \in NewNames(st, name),
                        tree \in NewTrees(st, opt_refresh) :
                        /\ target' = pn
                        /\ commit' = NewCommit(st, pn, tree)
                  /\ IF opt_save_template
                     THEN result' = Success /\ tx' = NoTx /\ pc' = "done"
                     ELSE /\ result' = Running
                          /\ tx' = MakeContext(st, "Disallow", FALSE, FALSE)
                          /\ pc' = "open"
    /\ UNCHANGED <<repo, env>>
    /\ UNCHANGED <<consulted, matches>>

\* new.rs 181: the closure given to transact
NewTransact ==
    /\ pc = "open"
    /\ cmd.name = "new"
    /\ tx' = [tx EXCEPT !.intents = <<NewIntent(target, DescOf(commit))>>]
    /\ pc' = "transacted"
    /\ UNCHANGED <<repo, env, cmd, stack, target, commit, result>>
    /\ UNCHANGED <<consulted, matches>>

(***************************************************************************)
(* The user and other tools, between two commands.                         *)
(***************************************************************************)
Exited ==
    /\ pc' = "idle" /\ cmd' = NoCmd /\ stack' = NoStack /\ target' = NoName
    /\ commit' = NoCommit /\ tx' = NoTx /\ result' = NoResult
    /\ consulted' = <<>>

\* the abnormal conditions that hold
Faults ==
    (IF repoState # "Clean" THEN 1 ELSE 0) + (IF indexDirty THEN 1 ELSE 0)
    + (IF worktreeDirty THEN 1 ELSE 0) + (IF head = ExternalOid THEN 1 ELSE 0)

\* the process of the finished command exits
Exit ==
    /\ pc = "done"
    /\ Exited
    /\ UNCHANGED <<repo, env, matches>>

EditWorktree ==
    /\ pc = "idle"
    /\ worktreeDirty \/ Faults < MaxFaults
    /\ worktreeDirty' = ~worktreeDirty
    /\ UNCHANGED <<repo, repoState, indexDirty, proc>>
    /\ UNCHANGED <<consulted, matches>>

StageIndex ==
    /\ pc = "idle"
    /\ indexDirty \/ Faults < MaxFaults
    /\ indexDirty' = ~indexDirty
    /\ UNCHANGED <<repo, repoState, worktreeDirty, proc>>
    /\ UNCHANGED <<consulted, matches>>

\* a merge or rebase outside the tool begins or ends
RepositoryStateChange ==
    /\ pc = "idle"
    /\ repoState # "Clean" \/ Faults < MaxFaults
    /\ repoState' = IF repoState = "Clean" THEN "Merge" ELSE "Clean"
    /\ UNCHANGED <<repo, indexDirty, worktreeDirty, proc>>
    /\ UNCHANGED <<consulted, matches>>

\* a commit made on the branch outside the tool, and its removal
ExternalCommit ==
    /\ pc = "idle"
    /\ head = ExternalOid \/ Faults < MaxFaults
    /\ head' = IF head = ExternalOid THEN TopCommit(applied, patches)
                                     ELSE ExternalOid
    /\ UNCHANGED <<applied, unapplied, hidden, patches, env, proc>>
    /\ UNCHANGED <<consulted, matches>>

Next ==
    \/ \E input \in Inputs, opt_keep \in BOOLEAN, opt_merged \in BOOLEAN :
            GotoStart(input, opt_keep, opt_merged)
    \/ GotoTransact
    \/ \E name \in PatchNames \cup {NoName},
          opt_refresh \in BOOLEAN, opt_save_template \in BOOLEAN,
          edit \in {"Committed", "TemplateSaved", "Failed"} :
            NewStart(name, opt_refresh, opt_save_template, edit)
    \/ NewTransact
    \/ TxExecuteDirty
    \/ TxExecute
    \/ TxStepPop
    \/ TxStepPush
    \/ TxStepConflict
    \/ TxStepNew
    \/ TxCommit
    \/ TxWriteFailure
    \/ Exit
    \/ EditWorktree
    \/ StageIndex
    \/ RepositoryStateChange
    \/ ExternalCommit

Spec == Init /\ [][Next]_vars

(***************************************************************************)
(* new.rs 21-121: the arguments of new and the constraints clap checks on  *)
(* the ones present.                                                       *)
(***************************************************************************)
\* new.rs 41-119, and save-template of patchedit::add_args (60, 75)
NewArgs == {"patchname", "pathspecs", "refresh", "index", "force",
            "submodules", "no-submodules", "save-template"}

\* Arg::requires: new.rs 87, 103, 111, 117
Requires(a) ==
    IF a \in {"index", "force", "submodules", "no-submodules"}
    THEN {"refresh"}
    ELSE {}

\* Arg::conflicts_with, conflicts_with_all: new.rs 60, 75, 88, 104
ConflictsWith(a) ==
    CASE a = "pathspecs" -> {"save-template"}
      [] a = "refresh" -> {"save-template"}
      [] a = "index" -> {"pathspecs", "submodules", "force"}
      [] a = "force" -> {"index"}
      [] OTHER -> {}

\* new.rs 119: the groups, none of which allows several of its arguments
ArgGroups == {{"submodules", "no-submodules"}}

\* clap takes a and b to conflict when either names the other, or when a
\* group holds both
ArgsConflict(a, b) ==
    /\ a # b
    /\ \/ b \in ConflictsWith(a)
       \/ a \in ConflictsWith(b)
       \/ \E g \in ArgGroups : a \in g /\ b \in g

\* get_matches: the command line is accepted
ArgsAccepted(m) ==
    /\ \A a, b \in m : ~ArgsConflict(a, b)
    /\ \A a \in m : Requires(a) \subseteq m

\* new.rs 145
IsRefreshing(m) == "refresh" \in m \/ "pathspecs" \in m

\* clap parses a command line of new that holds the arguments m
NewGetMatches(m) ==
    /\ pc = "idle"
    /\ matches' = m
    /\ cmd' = [NoCmd EXCEPT !.name = "new",
                            !.refresh = IsRefreshing(m),
                            !.save_template = "save-template" \in m]
    /\ IF ArgsAccepted(m)
       THEN result' = Running /\ pc' = "parsed"
       ELSE result' = Error("UsageError", {}) /\ pc' = "done"
    /\ UNCHANGED <<repo, env, stack, target, commit, tx, consulted>>

\* the process exits
NewMatchesExit ==
    /\ pc \in {"parsed", "done"}
    /\ Exited
    /\ matches' = {}
    /\ UNCHANGED <<repo, env>>

ArgsNext ==
    \/ \E m \in SUBSET NewArgs : NewGetMatches(m)
    \/ NewMatchesExit

\* the parsing of every command line of new
ArgsSpec == Init /\ [][ArgsNext]_vars

(***************************************************************************)
(* Properties.                                                             *)
(***************************************************************************)
PreflightErrors == {"RepositoryStateConflict", "HeadMismatch",
                    "DirtyIndex", "DirtyWorktree"}

\* a goto has ended with its transaction committed
GotoCommitted ==
    pc = "done" /\ cmd.name = "goto" /\ result.status = "ok"

\* the names of the patches of a sequence of intents, in order
IntentNames(intents) == [i \in 1..Len(intents) |-> intents[i].pn]
IntentOps(intents) == {intents[i].op : i \in 1..Len(intents)}

\* s in reverse order
Reverse(s) == [i \in 1..Len(s) |-> s[Len(s) - i + 1]]

\* C1: a successful goto whose target is applied at index pos pops the
\* patches above the target, topmost first, and ends with applied = the
\* old applied up to the target and unapplied = the popped patches in their
\* original order followed by the old unapplied.
C1_GotoAppliedTarget ==
    (GotoCommitted /\ target \in Range(stack.applied)) =>
        LET pos == Position(stack.applied, target)
            above == SubSeq(stack.applied, pos + 1, Len(stack.applied))
        IN /\ IntentOps(tx.intents) \subseteq {"pop"}
           /\ IntentNames(tx.intents) = Reverse(above)
           /\ tx.done = Len(tx.intents)
           /\ applied = SubSeq(stack.applied, 1, pos)
           /\ unapplied = above \o stack.unapplied

\* C1 witness: a goto that popped at least two patches has committed
C1_Witness ==
    /\ GotoCommitted
    /\ target \in Range(stack.applied)
    /\ Len(stack.applied) >= Position(stack.applied, target) + 2
    /\ Len(unapplied) >= 2

\* C2: a successful goto whose target is unapplied at index pos pushes
\* unapplied[0..pos] front to back and ends with applied = the old applied
\* followed by the pushed patches and unapplied = the rest of the old
\* unapplied.
C2_GotoUnappliedTarget ==
    (GotoCommitted /\ target \in Range(stack.unapplied)) =>
        LET pos == Position(stack.unapplied, target)
            pushed == SubSeq(stack.unapplied, 1, pos)
        IN /\ IntentOps(tx.intents) \subseteq {"push"}
           /\ IntentNames(tx.intents) = pushed
           /\ tx.done = Len(tx.intents)
           /\ applied = stack.applied \o pushed
           /\ unapplied = SubSeq(stack.unapplied, pos + 1,
                                 Len(stack.unapplied))

\* C2 witness: a goto that pushed at least two patches has committed
C2_Witness ==
    /\ GotoCommitted
    /\ target \in Range(stack.unapplied)
    /\ Position(stack.unapplied, target) >= 2
    /\ Len(applied) >= Len(stack.applied) + 2

\* the persisted metadata is what the command loaded
MetadataAsLoaded ==
    Metadata = [applied |-> stack.applied, unapplied |-> stack.unapplied,
                hidden |-> stack.hidden, patches |-> stack.patches]

\* C3: goto runs under ConflictMode::Disallow; a push that conflicts aborts
\* the transaction at that intent, no transaction that met a conflict
\* commits, and until a goto commits (so also after the abort, whatever was
\* pushed cleanly before) the persisted metadata is what it was before the
\* call.
C3_DisallowedConflictAtomic ==
    (cmd.name = "goto" /\ tx.state # "None") =>
        /\ tx.mode = "Disallow"
        /\ tx.state = "Committed" => ~tx.conflicts
        /\ tx.state # "Committed" => MetadataAsLoaded
        /\ result.msg = "MergeConflict" =>
              /\ tx.state = "Aborted"
              /\ pc = "done"
              /\ tx.done < Len(tx.intents)
              /\ tx.intents[tx.done + 1].op = "push"

\* C3 witness: a goto aborted on a conflict after a clean push
C3_Witness ==
    /\ pc = "done"
    /\ cmd.name = "goto"
    /\ result.msg = "MergeConflict"
    /\ tx.done >= 1
    /\ MetadataAsLoaded

\* the transaction t with its pop intents applied, as execute applies them
RECURSIVE RunPops(_)
RunPops(t) ==
    IF t.done = Len(t.intents) THEN t
    ELSE RunPops(ApplyPop(t, t.intents[t.done + 1].pn))

\* the transaction of `goto pn`, run from the persisted state, for an
\* applied pn
GotoPopTo(pn) ==
    LET t == GotoContext(FromBranch)
    IN RunPops([t EXCEPT !.intents = GotoPops(t, Position(t.applied, pn))])

\* the transaction that pops patch pn and what is above it
PopOf(pn) ==
    LET t == GotoContext(FromBranch)
    IN RunPops([t EXCEPT !.intents = PopPatches(t, {pn})])

\* what transaction t would persist is the stack that was loaded
RestoresLoaded(t) ==
    /\ t.applied = stack.applied
    /\ t.unapplied = stack.unapplied
    /\ TopCommit(t.applied, t.patches) = stack.head

\* a goto that pushed exactly the first unapplied patch has committed
PushedFirstUnapplied ==
    /\ GotoCommitted
    /\ Len(tx.intents) = 1
    /\ tx.intents[1].op = "push"

\* C4: when a goto has pushed the first unapplied patch, popping that patch
\* right away (by goto <previous top> when there is one) gives back the
\* applied order, the unapplied order and the head commit from before the
\* push.
C4_PushPopRoundTrip ==
    PushedFirstUnapplied =>
        /\ tx.intents[1].pn = Head(stack.unapplied)
        /\ RestoresLoaded(PopOf(tx.intents[1].pn))
        /\ stack.applied # <<>> =>
              LET prev == Last(stack.applied)
                  r == Resolve(FromBranch, prev)
              IN /\ GotoPreflight(FromBranch, cmd.keep) = "ok"
                 /\ r.ok
                 /\ r.name = prev
                 /\ RestoresLoaded(GotoPopTo(r.name))

\* C4 witness: the push made a new commit for the patch, on a previous top
C4_Witness ==
    /\ PushedFirstUnapplied
    /\ stack.applied # <<>>
    /\ patches[tx.intents[1].pn].commit
           # stack.patches[tx.intents[1].pn].commit
    /\ head # stack.head

\* the conditions the pre-flight checks of goto look for
GotoFault(opt_keep) ==
    \/ repoState # "Clean"
    \/ head # TopCommit(applied, patches)
    \/ ~opt_keep /\ (indexDirty \/ worktreeDirty)

\* C5: a goto that meets a failing pre-flight check or fails to resolve the
\* patch name ends with an error, without a transaction and with the
\* persisted metadata, the head, the index and the working tree unchanged.
C5_GotoFailsBeforeMutation ==
    [][(pc = "idle" /\ cmd'.name = "goto") =>
          /\ GotoFault(cmd'.keep) =>
                result'.status = "err" /\ result'.msg \in PreflightErrors
          /\ result'.status = "err" =>
                /\ pc' = "done"
                /\ tx' = NoTx
                /\ target' = NoName
                /\ UNCHANGED <<repo, env>>]_vars

\* C5 witness: a goto stopped by the head/top mismatch check, and no
\* transaction was made
C5_Witness ==
    /\ pc = "done"
    /\ cmd.name = "goto"
    /\ result.status = "err"
    /\ result.msg = "HeadMismatch"
    /\ cmd.input \in Range(unapplied)
    /\ tx = NoTx

\* a goto has passed its pre-flight checks and resolved (or failed to
\* resolve) its argument against the stack it loaded
ResolutionReached ==
    /\ cmd.name = "goto"
    /\ pc # "idle"
    /\ result.msg \notin PreflightErrors

\* the messages of a failed resolution (goto.rs 52, 68, 89, 99, 106)
ResolutionMessages ==
    {"Cannot goto a hidden patch", "ambiguous patch name",
     "no patch associated", "ambiguous commit id", "does not exist"}

\* the error of the specification's taxonomy that a message of goto reports
ErrorKind(msg) ==
    CASE msg = "Cannot goto a hidden patch" -> "HiddenPatchAccess"
      [] msg = "ambiguous patch name" -> "AmbiguousName"
      [] msg = "ambiguous commit id" -> "AmbiguousCommitPrefix"
      [] msg \in {"no patch associated", "does not exist"} -> "NotFound"
      [] OTHER -> msg

\* the known names that score above the threshold against the input
Candidates ==
    {pn \in DOMAIN stack.patches : SimilarityAboveThreshold(pn, cmd.input)}

\* the patches whose commit id has the input, in lower case, as a prefix
PrefixMatches ==
    {pn \in DOMAIN stack.patches :
        StartsWith(stack.patches[pn].commit, ToAsciiLowercase(cmd.input))}

\* the input is at least 4 hexadecimal digits
HexInput ==
    /\ Len(cmd.input) >= 4
    /\ \A i \in 1..Len(cmd.input) :
          cmd.input[i] \in LowerHexDigits \cup UpperHexDigits

\* C6: resolving a known patch name never gives another name, and gives
\* the name itself when it is not hidden, whatever names are similar to it
\* and whatever commit ids it is a prefix of.
C6_ExactNameResolvesToItself ==
    (ResolutionReached /\ cmd.input \in DOMAIN stack.patches) =>
        /\ target \in {NoName, cmd.input}
        /\ cmd.input \notin stack.hidden =>
              target = cmd.input /\ result.msg \notin ResolutionMessages

\* C6 witness: a name was resolved to itself while it is a prefix of
\* another patch's commit id
C6_Witness ==
    /\ ResolutionReached
    /\ HexInput
    /\ cmd.input \in DOMAIN stack.patches
    /\ target = cmd.input
    /\ PrefixMatches \ {cmd.input} # {}

\* C7: an input that is the name of a hidden patch fails with "Cannot goto
\* a hidden patch": nothing is resolved, no candidates are printed and no
\* transaction is made.
C7_HiddenNameRejected ==
    (ResolutionReached /\ cmd.input \in stack.hidden) =>
        /\ result = Error("Cannot goto a hidden patch", {})
        /\ ErrorKind(result.msg) = "HiddenPatchAccess"
        /\ target = NoName
        /\ tx = NoTx
        /\ pc = "done"

\* C7 witness: the hidden name was rejected although another name is
\* similar to it
C7_Witness ==
    /\ ResolutionReached
    /\ cmd.input \in stack.hidden
    /\ result.msg = "Cannot goto a hidden patch"
    /\ Candidates \ {cmd.input} # {}

FeatureA == <<"f", "e", "a", "t", "u", "r", "e", "-", "a">>
FeatureB == <<"f", "e", "a", "t", "u", "r", "e", "-", "b">>
Feature == <<"f", "e", "a", "t", "u", "r", "e">>
FeatureStack ==
    [applied |-> <<FeatureA>>, unapplied |-> <<FeatureB>>, hidden |-> {},
     patches |-> [pn \in {FeatureA, FeatureB} |->
                     CreateCommit(P1, BaseTree, BaseTree)],
     head |-> BaseOid]

\* C8: an input that is no known name and that some known names score
\* above 0.75 against fails with "ambiguous patch name" and prints exactly
\* those names, also when there is one; nothing is resolved.  With patches
\* feature-a and feature-b, the input feature prints both.
C8_SimilarNamesAmbiguous ==
    /\ (ResolutionReached /\ cmd.input \notin DOMAIN stack.patches
            /\ Candidates # {}) =>
          /\ result = Error("ambiguous patch name", Candidates)
          /\ ErrorKind(result.msg) = "AmbiguousName"
          /\ target = NoName
          /\ tx = NoTx
    /\ Resolve(FeatureStack, Feature)
          = Failed("ambiguous patch name", {FeatureA, FeatureB})

\* C8 witness: exactly one candidate, which is not taken
C8_Witness ==
    /\ ResolutionReached
    /\ cmd.input \notin DOMAIN stack.patches
    /\ Cardinality(Candidates) = 1
    /\ result.msg = "ambiguous patch name"
    /\ pc = "done"

\* what the commit id prefix stage gives for the input
PrefixOutcome ==
    /\ Cardinality(PrefixMatches) = 1 =>
          target \in PrefixMatches /\ result.msg \notin ResolutionMessages
    /\ PrefixMatches = {} =>
          /\ result.status = "err"
          /\ ErrorKind(result.msg) = "NotFound"
          /\ target = NoName
    /\ Cardinality(PrefixMatches) > 1 =>
          /\ result = Error("ambiguous commit id", PrefixMatches)
          /\ ErrorKind(result.msg) = "AmbiguousCommitPrefix"
          /\ target = NoName

\* C9 as claimed: an input of at least 4 hexadecimal digits (that is no
\* known name) resolves to the one patch whose commit id has it as a
\* prefix, fails with NotFound when there is none and with
\* AmbiguousCommitPrefix, reporting all, when there are several.
C9_Original ==
    (ResolutionReached /\ HexInput /\ cmd.input \notin DOMAIN stack.patches)
        => PrefixOutcome

\* C9 amended: the same, for inputs that no known name scores above 0.75
\* against.
C9_OidPrefixResolution ==
    (ResolutionReached /\ HexInput /\ cmd.input \notin DOMAIN stack.patches
        /\ Candidates = {}) => PrefixOutcome

\* C9 witness: an upper-case prefix resolved to the one patch it matches
C9_Witness ==
    /\ ResolutionReached
    /\ HexInput
    /\ cmd.input \notin DOMAIN stack.patches
    /\ cmd.input # ToAsciiLowercase(cmd.input)
    /\ Cardinality(DOMAIN stack.patches) >= 2
    /\ target \in PrefixMatches

\* C10 as claimed: an input shorter than 4 characters that is no known
\* name fails with NotFound, by the last branch of the resolution.
C10_Original ==
    (ResolutionReached /\ Len(cmd.input) < 4
        /\ cmd.input \notin DOMAIN stack.patches) =>
        /\ target = NoName
        /\ result = Error("does not exist", {})

\* C10 amended: such an input never reaches the commit id prefix stage; it
\* fails with AmbiguousName when known names score above 0.75 against it,
\* and with NotFound by the last branch otherwise.
C10_ShortInputNeverPrefix ==
    (ResolutionReached /\ Len(cmd.input) < 4
        /\ cmd.input \notin DOMAIN stack.patches) =>
        /\ target = NoName
        /\ tx = NoTx
        /\ result = IF Candidates # {}
                    THEN Error("ambiguous patch name", Candidates)
                    ELSE Error("does not exist", {})

\* C10 witness: a 2-character prefix of a patch's commit id was not found
C10_Witness ==
    /\ ResolutionReached
    /\ Len(cmd.input) < 4
    /\ cmd.input \notin DOMAIN stack.patches
    /\ PrefixMatches # {}
    /\ OidFromStrOk(cmd.input)
    /\ result = Error("does not exist", {})

\* what a goto does once its pre-flight checks have passed: it resolves the
\* name, and makes the transaction when the name resolves
GotoProceeds ==
    /\ result'.msg \notin PreflightErrors
    /\ result'.status = "err" =>
          result'.msg \in ResolutionMessages /\ tx' = NoTx
    /\ result'.status # "err" =>
          /\ pc' = "open"
          /\ target' = Resolve(FromBranch, cmd'.input).name
          /\ tx'.state = "Open"

\* C11: in the step that starts a goto, the repository state check and the
\* head/top check run whatever keep is; without keep a dirty index or a
\* dirty working tree ends the command with DirtyIndex or DirtyWorktree,
\* the name not resolved and no transaction made; with keep the index and
\* the working tree are not looked at, and the command goes on to resolve
\* the name and to make the transaction.
C11_KeepSkipsCleanChecks ==
    [][(pc = "idle" /\ cmd'.name = "goto") =>
          LET stateOk == repoState = "Clean"
              headOk == head = TopCommit(applied, patches)
          IN /\ ~stateOk => result' = Error("RepositoryStateConflict", {})
             /\ (stateOk /\ ~headOk) => result' = Error("HeadMismatch", {})
             /\ (stateOk /\ headOk /\ ~cmd'.keep /\ indexDirty) =>
                   /\ result' = Error("DirtyIndex", {})
                   /\ target' = NoName /\ tx' = NoTx /\ pc' = "done"
             /\ (stateOk /\ headOk /\ ~cmd'.keep /\ ~indexDirty
                     /\ worktreeDirty) =>
                   /\ result' = Error("DirtyWorktree", {})
                   /\ target' = NoName /\ tx' = NoTx /\ pc' = "done"
             /\ (stateOk /\ headOk /\ ~cmd'.keep /\ ~indexDirty
                     /\ ~worktreeDirty) => GotoProceeds
             /\ (stateOk /\ headOk /\ cmd'.keep) => GotoProceeds]_vars

\* C11 witness: a goto with keep has made its transaction while the index
\* or the working tree is dirty
C11_Witness ==
    /\ cmd.name = "goto"
    /\ cmd.keep
    /\ indexDirty \/ worktreeDirty
    /\ pc = "open"
    /\ tx.state = "Open"
    /\ target # NoName

\* s has no element twice
NoDuplicates(s) == \A i, j \in 1..Len(s) : s[i] = s[j] => i = j

\* ap, un and hid are pairwise disjoint and hold exactly the names that have
\* a descriptor in pt
Partition(ap, un, hid, pt) ==
    /\ NoDuplicates(ap)
    /\ NoDuplicates(un)
    /\ Range(ap) \cap Range(un) = {}
    /\ Range(ap) \cap hid = {}
    /\ Range(un) \cap hid = {}
    /\ Range(ap) \cup Range(un) \cup hid = DOMAIN pt

\* C12: in every state, so after any sequence of goto and new, whether they
\* succeeded or failed, applied, unapplied and hidden are pairwise disjoint
\* and together are the names that have a descriptor; the same holds of the
\* transaction's copy at every intent applied; no descriptor the command
\* loaded is missing later, and a goto only moves names between applied and
\* unapplied.
C12_CollectionsPartitionPatches ==
    /\ Partition(applied, unapplied, hidden, patches)
    /\ pc # "idle" => DOMAIN stack.patches \subseteq DOMAIN patches
    /\ tx.state # "None" =>
          /\ Partition(tx.applied, tx.unapplied, stack.hidden, tx.patches)
          /\ DOMAIN stack.patches \subseteq DOMAIN tx.patches
          /\ cmd.name = "goto" =>
                /\ DOMAIN tx.patches = DOMAIN stack.patches
                /\ Range(tx.applied) \cup Range(tx.unapplied)
                      = Range(stack.applied) \cup Range(stack.unapplied)

\* C12 witness: a goto has moved patches and committed, and each of the
\* three collections holds a patch
C12_Witness ==
    /\ GotoCommitted
    /\ tx.done >= 1
    /\ applied # <<>>
    /\ unapplied # <<>>
    /\ hidden # {}

\* a new has ended with its transaction committed
NewCommitted ==
    pc = "done" /\ cmd.name = "new" /\ tx.state = "Committed"

C14_FlagConstraints ==
    (cmd.name = "new" /\ pc # "idle"
        /\ \/ /\ "index" \in matches
              /\ matches \cap {"pathspecs", "submodules", "no-submodules",
                               "force"} # {}
           \/ {"submodules", "no-submodules"} \subseteq matches) =>
        result.status = "err"

\* C15: when a goto or a new has committed, the head is the commit of the
\* last applied patch; so the head is that commit, or the branch base with
\* nothing applied, in every state where no commit was made outside the
\* tool, and a command fails the head/top check only on such a commit.
C15_HeadIsTopOfApplied ==
    /\ (pc = "done" /\ tx.state = "Committed") =>
          /\ applied # <<>>
          /\ head = patches[Last(applied)].commit
    /\ head # ExternalOid =>
          /\ head = TopCommit(applied, patches)
          /\ applied = <<>> => head = BaseOid
          /\ CheckHeadTopMismatch(FromBranch)
    /\ result.msg = "HeadMismatch" => stack.head = ExternalOid

\* C15 witness: a goto that popped two patches has committed, and the head
\* has moved to the commit of the new top
C15_Witness ==
    /\ GotoCommitted
    /\ Len(stack.applied) >= Len(applied) + 2
    /\ head # stack.head
    /\ head = patches[Last(applied)].commit

\* the moves of a transaction's state
TxMoves == {<<"None", "Open">>, <<"Open", "Executing">>,
            <<"Executing", "Committed">>, <<"Executing", "Aborted">>}

\* the intent at position tx.done + 1 is the one applied in this step
NextIntentApplied ==
    LET it == tx.intents[tx.done + 1]
    IN /\ tx.done < Len(tx.intents)
       /\ tx'.done = tx.done + 1
       /\ tx'.intents = tx.intents
       /\ it.op = "pop" =>
             /\ it.pn = Last(tx.applied)
             /\ tx'.applied = SubSeq(tx.applied, 1, Len(tx.applied) - 1)
             /\ tx'.unapplied = <<it.pn>> \o tx.unapplied
       /\ it.op \in {"push", "new"} =>
             /\ tx'.applied = Append(tx.applied, it.pn)
             /\ Range(tx'.unapplied) = Range(tx.unapplied) \ {it.pn}

\* C16: a transaction's state moves only from Open to Executing and from
\* Executing to Committed or Aborted, and it is gone only when the process
\* exits; a step that leaves it Open (recording intents) changes neither
\* the persisted metadata nor the head; a step that leaves it Executing
\* applies the next recorded intent, the list of intents unchanged; it is
\* Committed only with every intent applied; and the persisted metadata
\* changes only in the step from Executing to Committed.
C16_TransactionStateMachine ==
    [][/\ (tx'.state # tx.state /\ tx'.state # "None") =>
              <<tx.state, tx'.state>> \in TxMoves
       /\ (tx'.state # tx.state /\ tx'.state = "None") => pc' = "idle"
       /\ (tx.state = "Open" /\ tx'.state = "Open") => UNCHANGED repo
       /\ (tx.state = "Executing" /\ tx'.state = "Executing") =>
              NextIntentApplied
       /\ (tx.state = "Executing" /\ tx'.state # "None") =>
              tx'.intents = tx.intents
       /\ (tx.state = "Executing" /\ tx'.state = "Committed") =>
              /\ tx.done = Len(tx.intents)
              /\ Metadata' = [applied |-> tx.applied,
                              unapplied |-> tx.unapplied,
                              hidden |-> hidden, patches |-> tx.patches]
       /\ Metadata' # Metadata =>
              tx.state = "Executing" /\ tx'.state = "Committed"]_vars

\* C16 witness: a transaction of two intents has committed and the
\* persisted stack is no longer the one loaded
C16_Witness ==
    /\ tx.state = "Committed"
    /\ Len(tx.intents) >= 2
    /\ tx.done = Len(tx.intents)
    /\ applied # stack.applied
    /\ applied = tx.applied

\* the closure of a goto has recorded its intents
GotoTransacted ==
    /\ cmd.name = "goto"
    /\ pc = "transacted" \/ tx.state \in {"Executing", "Committed", "Aborted"}

\* C17: in a goto to an unapplied target, with the merged flag the Merge
\* Detector is asked once, about the whole list of patches to push and on
\* the transaction as it was made, and each patch is pushed as merged
\* exactly when the detector returned it; without the flag it is not asked
\* and no patch is pushed as merged; the transaction is otherwise as it was
\* made when the intents are recorded; and a goto that commits ends with
\* the same applied and unapplied with and without the flag.  No other
\* command asks the detector.
C17_MergedFlagConsultsDetector ==
    /\ (GotoTransacted /\ target \in Range(stack.unapplied)) =>
          LET pos == Position(stack.unapplied, target)
              to_apply == SubSeq(stack.unapplied, 1, pos)
              returned == CheckMerged(GotoContext(stack), to_apply)
          IN /\ IntentOps(tx.intents) = {"push"}
             /\ IntentNames(tx.intents) = to_apply
             /\ cmd.merged =>
                   /\ consulted = <<to_apply>>
                   /\ \A i \in 1..Len(to_apply) :
                         tx.intents[i].merged <=> to_apply[i] \in returned
             /\ ~cmd.merged =>
                   /\ consulted = <<>>
                   /\ \A i \in 1..Len(to_apply) : ~tx.intents[i].merged
             /\ pc = "transacted" =>
                   tx = [GotoContext(stack) EXCEPT !.intents = tx.intents]
             /\ tx.state = "Committed" =>
                   /\ applied = stack.applied \o to_apply
                   /\ unapplied = SubSeq(stack.unapplied, pos + 1,
                                         Len(stack.unapplied))
    /\ consulted # <<>> =>
          /\ GotoTransacted
          /\ cmd.merged
          /\ target \in Range(stack.unapplied)

\* C17 witness: a goto with the merged flag has committed two pushes, one
\* of a patch the detector returned and one of a patch it did not
C17_Witness ==
    /\ GotoCommitted
    /\ cmd.merged
    /\ Len(consulted) = 1
    /\ Len(tx.intents) = 2
    /\ tx.intents[1].merged # tx.intents[2].merged

\* C18: whenever a goto has resolved its argument, the resolved patch is
\* known and not hidden, so it is applied or unapplied, and the lookup in
\* unapplied that goto.rs 132 asserts with expect() does not fail.
C18_ResolvedPatchNotHidden ==
    (cmd.name = "goto" /\ target # NoName) =>
        /\ target \in DOMAIN stack.patches
        /\ target \notin stack.hidden
        /\ target \in Range(stack.applied) \cup Range(stack.unapplied)
        /\ result.msg # "panic"

\* the conditions under which new returns before its transaction: a failed
\* pre-flight check, a given name the stack has, or save-template
NewExitsEarly ==
    \/ repoState # "Clean"
    \/ head # TopCommit(applied, patches)
    \/ cmd'.input \in Range(applied) \cup Range(unapplied) \cup hidden
    \/ cmd'.save_template

C20_GotoKeepsOrder ==
    (cmd.name = "goto" /\ pc # "idle") =>
        /\ hidden = stack.hidden
        /\ applied \o unapplied = stack.applied \o stack.unapplied
        /\ tx.state # "None" =>
              tx.applied \o tx.unapplied = stack.applied \o stack.unapplied
        /\ (stack.applied # <<>> /\ target = Last(stack.applied)) =>
              /\ tx.intents = <<>>
              /\ MetadataAsLoaded
              /\ head = stack.head

\* C20 witness: a goto has committed the push of a patch onto an applied
\* patch, next to a hidden patch
C20_Witness ==
    /\ GotoCommitted
    /\ hidden # {}
    /\ Len(applied) = Len(stack.applied) + 1
    /\ stack.applied # <<>>
    /\ applied \o unapplied = stack.applied \o stack.unapplied
====
